---- MODULE Spec2Model ----
(***************************************************************************)
(* A model of cinder::gl::Vbo / VboMesh (include/cinder/gl/Vbo.h):         *)
(*   - VboMesh::Layout, the per-slot NONE/STATIC/DYNAMIC description and   *)
(*     its mutators;                                                       *)
(*   - the resolution of a Layout into offsets, strides and buffer sizes   *)
(*     done when a VboMesh is constructed;                                 *)
(*   - the shared ownership of the device buffers (std::shared_ptr<Obj>);  *)
(*   - the construction of a VboMesh from buffers the caller supplies;     *)
(*   - the public operations of a constructed VboMesh: the bulk uploads,   *)
(*     setTexCoordOffset, setCustomDynamicLocation;                        *)
(*   - VboMesh::VertexIter, the cursor over the mapped dynamic buffer.     *)
(***************************************************************************)
EXTENDS Integers, Sequences, FiniteSets, TLC

VARIABLES
    layout,   \* the VboMesh::Layout the caller is building
    nOps,     \* number of Layout mutator calls made so far
    last,     \* history: the last operation, its argument, the state before it
    mesh,     \* the VboMesh::Obj shared by the VboMesh handles, or NoMesh
    meshHandles, \* number of VboMesh handles whose mObj points to `mesh'
    vbo,      \* the Vbo::Obj of the index, static and dynamic buffer
    vboHandles,  \* per buffer, the Vbo handles the caller holds copies of
    iterObj,  \* the VertexIter::Obj of the open mapping session, or NoIterObj
    iters,    \* the live VertexIter copies of that session
    mem,      \* the bytes stored through the mapped pointer, by address
    nWrites,  \* number of setter calls made in the open mapping session
    device,   \* the bufferSubData calls the bulk uploads of `mesh' have issued
    pool,     \* the Vbo::Obj created for the meshes built from supplied buffers
    callerVbo,   \* per buffer kind, the Vbo the caller created to supply, or Null
    built     \* the meshes built from caller-supplied buffers

layoutVars == <<layout, nOps>>
ownerVars == <<meshHandles, vbo, vboHandles>>
cursorVars == <<iterObj, iters, mem, nWrites>>
shareVars == <<pool, callerVbo, built>>
vars == <<layout, nOps, last, mesh, meshHandles, vbo, vboHandles, iterObj, iters, mem,
          nWrites, device, pool, callerVbo, built>>

----------------------------------------------------------------------------
(* Bounds of the exploration.                                              *)

MaxLayoutOps == 3
MaxHandles == 2      \* copies of a VboMesh handle, of a Vbo handle, of a VertexIter
MaxSessions == 2     \* mapVertexBuffer() calls on one mesh
MaxAdvances == 2     \* operator++ calls on one VertexIter
MaxWrites == 1       \* setter calls in one mapping session
MaxCustomVec4 == 16  \* custom vec4 attributes of the largest Layout mapped
MaxUploads == 1      \* bulk uploads of one mesh that reach the device
MaxMeshes == 2       \* meshes built from caller-supplied buffers

----------------------------------------------------------------------------
(* enum { NONE, STATIC, DYNAMIC }                                          *)

NONE == 0
STATIC == 1
DYNAMIC == 2

(* enum { ATTR_INDICES, ..., ATTR_TOTAL } and ATTR_MAX_TEXTURE_UNIT        *)

ATTR_INDICES == 0
ATTR_POSITIONS == 1
ATTR_NORMALS == 2
ATTR_COLORS_RGB == 3
ATTR_COLORS_RGBA == 4
ATTR_TEXCOORDS2D_0 == 5
ATTR_TEXCOORDS3D_0 == 9
ATTR_TOTAL == 13
ATTR_MAX_TEXTURE_UNIT == 3

(* enum CustomAttr                                                         *)

CUSTOM_ATTR_FLOAT == 0
CUSTOM_ATTR_FLOAT2 == 1
CUSTOM_ATTR_FLOAT3 == 2
CUSTOM_ATTR_FLOAT4 == 3
TOTAL_CUSTOM_ATTR_TYPES == 4

Slots == 0 .. (ATTR_TOTAL - 1)
Units == 0 .. ATTR_MAX_TEXTURE_UNIT
CustomTypes == 0 .. (TOTAL_CUSTOM_ATTR_TYPES - 1)

----------------------------------------------------------------------------
(* VboMesh::Layout.  mCustomDynamic / mCustomStatic hold pairs             *)
(* <<type, offset>>; the appenders push offset 0.                          *)

initAttributes == [a \in Slots |-> NONE]

DefaultLayout ==
    [mAttributes |-> initAttributes, mCustomDynamic |-> <<>>, mCustomStatic |-> <<>>]

(* Faulty variant: a Layout with a custom attribute is not a default one.   *)
isDefaults_countsCustoms(L) ==
    /\ \A a \in Slots : L.mAttributes[a] = NONE
    /\ Len(L.mCustomDynamic) = 0
    /\ Len(L.mCustomStatic) = 0
(* for( a = 0; a < ATTR_TOTAL; ++a ) if( mAttributes[a] != NONE ) return   *)
(* false; return true;                                                     *)
isDefaults(L) == \A a \in Slots : L.mAttributes[a] = NONE

SetAttr(L, a, v) == [L EXCEPT !.mAttributes[a] = v]

setStaticNormals(L) == SetAttr(L, ATTR_NORMALS, STATIC)
setDynamicNormals(L) == SetAttr(L, ATTR_NORMALS, DYNAMIC)

setStaticColorsRGB(L) ==
    SetAttr(SetAttr(L, ATTR_COLORS_RGB, STATIC), ATTR_COLORS_RGBA, NONE)
setDynamicColorsRGB(L) ==
    SetAttr(SetAttr(L, ATTR_COLORS_RGB, DYNAMIC), ATTR_COLORS_RGBA, NONE)
setStaticColorsRGBA(L) ==
    SetAttr(SetAttr(L, ATTR_COLORS_RGBA, STATIC), ATTR_COLORS_RGB, NONE)
(* Faulty variant: the RGBA setter forgets to clear the RGB slot.           *)
setDynamicColorsRGBA_keepsRGB(L) == SetAttr(L, ATTR_COLORS_RGBA, DYNAMIC)
setDynamicColorsRGBA(L) ==
    SetAttr(SetAttr(L, ATTR_COLORS_RGBA, DYNAMIC), ATTR_COLORS_RGB, NONE)

setStaticTexCoords2d(L, unit) ==
    SetAttr(SetAttr(L, ATTR_TEXCOORDS2D_0 + unit, STATIC), ATTR_TEXCOORDS3D_0 + unit, NONE)
setDynamicTexCoords2d(L, unit) ==
    SetAttr(SetAttr(L, ATTR_TEXCOORDS2D_0 + unit, DYNAMIC), ATTR_TEXCOORDS3D_0 + unit, NONE)
(* Faulty variant: the 3D setter clears the 2D slot of unit 0, whatever    *)
(* the unit it was called for.                                             *)
setStaticTexCoords3d_clearsUnit0(L, unit) ==
    SetAttr(SetAttr(L, ATTR_TEXCOORDS3D_0 + unit, STATIC), ATTR_TEXCOORDS2D_0, NONE)
setStaticTexCoords3d(L, unit) ==
    SetAttr(SetAttr(L, ATTR_TEXCOORDS3D_0 + unit, STATIC), ATTR_TEXCOORDS2D_0 + unit, NONE)
setDynamicTexCoords3d(L, unit) ==
    SetAttr(SetAttr(L, ATTR_TEXCOORDS3D_0 + unit, DYNAMIC), ATTR_TEXCOORDS2D_0 + unit, NONE)

setStaticIndices(L) == SetAttr(L, ATTR_INDICES, STATIC)
setDynamicIndices(L) == SetAttr(L, ATTR_INDICES, DYNAMIC)
setStaticPositions(L) == SetAttr(L, ATTR_POSITIONS, STATIC)
setDynamicPositions(L) == SetAttr(L, ATTR_POSITIONS, DYNAMIC)

(* Faulty variant: the declaration is put at the front of the list.         *)
PushCustomDynamic_front(L, type) ==
    [L EXCEPT !.mCustomDynamic = << <<type, 0>> >> \o @]
(* mCustomDynamic.push_back( std::make_pair( type, 0 ) )                   *)
PushCustomDynamic(L, type) ==
    [L EXCEPT !.mCustomDynamic = Append(@, <<type, 0>>)]

addDynamicCustomFloat(L) == PushCustomDynamic(L, CUSTOM_ATTR_FLOAT)
addDynamicCustomVec2f(L) == PushCustomDynamic(L, CUSTOM_ATTR_FLOAT2)
addDynamicCustomVec3f(L) == PushCustomDynamic(L, CUSTOM_ATTR_FLOAT3)
addDynamicCustomVec4f(L) == PushCustomDynamic(L, CUSTOM_ATTR_FLOAT4)

(* Queries.                                                                *)

hasStaticNormals(L) == L.mAttributes[ATTR_NORMALS] = STATIC
hasDynamicNormals(L) == L.mAttributes[ATTR_NORMALS] = DYNAMIC
hasStaticColorsRGB(L) == L.mAttributes[ATTR_COLORS_RGB] = STATIC
hasDynamicColorsRGB(L) == L.mAttributes[ATTR_COLORS_RGB] = DYNAMIC
hasStaticColorsRGBA(L) == L.mAttributes[ATTR_COLORS_RGBA] = STATIC
hasDynamicColorsRGBA(L) == L.mAttributes[ATTR_COLORS_RGBA] = DYNAMIC
hasStaticTexCoords2d(L, unit) == L.mAttributes[ATTR_TEXCOORDS2D_0 + unit] = STATIC
hasDynamicTexCoords2d(L, unit) == L.mAttributes[ATTR_TEXCOORDS2D_0 + unit] = DYNAMIC
hasStaticTexCoords3d(L, unit) == L.mAttributes[ATTR_TEXCOORDS3D_0 + unit] = STATIC
hasDynamicTexCoords3d(L, unit) == L.mAttributes[ATTR_TEXCOORDS3D_0 + unit] = DYNAMIC
hasStaticIndices(L) == L.mAttributes[ATTR_INDICES] = STATIC
hasDynamicIndices(L) == L.mAttributes[ATTR_INDICES] = DYNAMIC
hasIndices(L) == hasStaticIndices(L) \/ hasDynamicIndices(L)
hasStaticPositions(L) == L.mAttributes[ATTR_POSITIONS] = STATIC
hasDynamicPositions(L) == L.mAttributes[ATTR_POSITIONS] = DYNAMIC

----------------------------------------------------------------------------
(* Resolution of a Layout (VboMesh::VboMesh( numVertices, numIndices,      *)
(* layout, primitiveType ) and initializeBuffers).  Only the declarations  *)
(* are in Vbo.h; the placement rules are those of the design document:     *)
(* static data planar, dynamic data interleaved, both in the slot order    *)
(* position, normal, colorRGB, colorRGBA, texcoords of unit 0..3, customs. *)

INDEX_BUFFER == 0
STATIC_BUFFER == 1
DYNAMIC_BUFFER == 2
Buffers == {INDEX_BUFFER, STATIC_BUFFER, DYNAMIC_BUFFER}

Unset == 0 - 1   \* a field of Obj that initializeBuffers never assigned
Null == 0        \* a null Vbo pointer, an empty handle

sCustomAttrSizes == <<4, 8, 12, 16>>
customSize(type) == sCustomAttrSizes[type + 1]

SizeofIndex == 4
SizeofVec2f == 8
SizeofVec3f == 12
SizeofVec4f == 16

texCoordPresence(L, unit) ==
    IF L.mAttributes[ATTR_TEXCOORDS2D_0 + unit] # NONE
        THEN L.mAttributes[ATTR_TEXCOORDS2D_0 + unit]
        ELSE L.mAttributes[ATTR_TEXCOORDS3D_0 + unit]

(* Faulty variant: every texcoord is sized as a Vec3f.                     *)
texCoordSize_alwaysVec3f(L, unit) == SizeofVec3f
texCoordSize(L, unit) ==
    IF L.mAttributes[ATTR_TEXCOORDS2D_0 + unit] # NONE THEN SizeofVec2f ELSE SizeofVec3f

(* The fixed slots in placement order: <<presence, size>>.                 *)
fixedEntries(L) ==
    << <<L.mAttributes[ATTR_POSITIONS], SizeofVec3f>>,
       <<L.mAttributes[ATTR_NORMALS], SizeofVec3f>>,
       <<L.mAttributes[ATTR_COLORS_RGB], SizeofVec3f>>,
       <<L.mAttributes[ATTR_COLORS_RGBA], SizeofVec4f>> >>
    \o [u \in 1 .. (ATTR_MAX_TEXTURE_UNIT + 1) |->
            <<texCoordPresence(L, u - 1), texCoordSize(L, u - 1)>>]

(* One pass over the entries of a region: entry i of that region gets the  *)
(* running offset, which then grows by the entry's size times `count'      *)
(* (the vertex count for a planar region, 1 for an interleaved one).       *)
(* Returns <<offsets, final offset>>.                                      *)
RECURSIVE placeEntries(_, _, _, _, _, _)
placeEntries(entries, region, count, i, offset, acc) ==
    IF i > Len(entries) THEN <<acc, offset>>
    ELSE IF entries[i][1] = region
        THEN placeEntries(entries, region, count, i + 1,
                          offset + entries[i][2] * count, Append(acc, offset))
        ELSE placeEntries(entries, region, count, i + 1, offset, Append(acc, Unset))

(* Faulty variant: the customs are placed from offset 0, over the fixed    *)
(* slots, instead of after them.                                           *)
RECURSIVE placeCustoms_fromZero(_, _, _, _)
placeCustoms_fromZero(customs, i, offset, acc) ==
    IF i > Len(customs) THEN <<acc, offset>>
    ELSE placeCustoms_fromZero(customs, i + 1,
                               (IF i = 1 THEN 0 ELSE offset) + customSize(customs[i][1]),
                               Append(acc, <<customs[i][1], IF i = 1 THEN 0 ELSE offset>>))

RECURSIVE placeCustoms(_, _, _, _)
placeCustoms(customs, i, offset, acc) ==
    IF i > Len(customs) THEN <<acc, offset>>
    ELSE placeCustoms(customs, i + 1, offset + customSize(customs[i][1]),
                      Append(acc, <<customs[i][1], offset>>))

initializeBuffers(numVertices, numIndices, L) ==
    LET entries == fixedEntries(L)
        static == placeEntries(entries, STATIC, numVertices, 1, 0, <<>>)
        dynamic == placeEntries(entries, DYNAMIC, 1, 1, 0, <<>>)
        customs == placeCustoms(L.mCustomDynamic, 1, dynamic[2], <<>>)
        perVertex == placeEntries(entries, STATIC, 1, 1, 0, <<>>)
        off(i) == IF entries[i][1] = STATIC THEN static[1][i]
                  ELSE IF entries[i][1] = DYNAMIC THEN dynamic[1][i]
                  ELSE Unset
        hasStaticBuffer == \E i \in 1 .. Len(entries) : entries[i][1] = STATIC
        hasDynamicBuffer == \/ \E i \in 1 .. Len(entries) : entries[i][1] = DYNAMIC
                            \/ Len(L.mCustomDynamic) > 0
    IN  [mNumIndices |-> numIndices,
         mNumVertices |-> numVertices,
         mPositionOffset |-> off(1),
         mNormalOffset |-> off(2),
         mColorRGBOffset |-> off(3),
         mColorRGBAOffset |-> off(4),
         mTexCoordOffset |-> [u \in Units |-> off(5 + u)],
         mStaticStride |-> perVertex[2],
         mDynamicStride |-> customs[2],
         mLayout |-> [L EXCEPT !.mCustomDynamic = customs[1]],
         mCustomDynamicLocations |-> [i \in 1 .. Len(L.mCustomDynamic) |-> Unset],
         hasBuffer |-> [b \in Buffers |->
                          IF b = INDEX_BUFFER THEN hasIndices(L)
                          ELSE IF b = STATIC_BUFFER THEN hasStaticBuffer
                          ELSE hasDynamicBuffer],
         bufferSize |-> [b \in Buffers |->
                          IF b = INDEX_BUFFER
                              THEN (IF hasIndices(L) THEN numIndices * SizeofIndex ELSE 0)
                          ELSE IF b = STATIC_BUFFER THEN static[2]
                          ELSE customs[2] * numVertices]]

NoMesh == [mNumVertices |-> Unset]

VertexCounts == {0, 1, 4}
IndexCounts == {0, 6}

----------------------------------------------------------------------------
(* Vbo: a handle holding std::shared_ptr<Obj>; Obj owns the GL buffer id   *)
(* and ~Obj deletes it.  useCount is the shared_ptr use count, nDeleted    *)
(* counts the runs of ~Obj, nMap / nUnmap the map() / unmap() calls.       *)

NoVbo == [useCount |-> 0, nDeleted |-> 0, mapped |-> FALSE, nMap |-> 0, nUnmap |-> 0]

(* Vbo( GLenum aTarget ): a fresh Obj with one owner.                      *)
newVbo == [NoVbo EXCEPT !.useCount = 1]

(* A handle is copied: one more owner.                                     *)
acquire(v) == [v EXCEPT !.useCount = @ + 1]

(* Faulty variant: every reset() deletes the buffer, shared or not.        *)
release_alwaysDeletes(v) == [v EXCEPT !.useCount = @ - 1, !.nDeleted = @ + 1]

(* A handle lets go (reset(), or the handle is destroyed): the last owner  *)
(* runs ~Obj.                                                              *)
release(v) ==
    IF v.useCount = 1
        THEN [v EXCEPT !.useCount = 0, !.nDeleted = @ + 1]
        ELSE [v EXCEPT !.useCount = @ - 1]

(* ~VboMesh::Obj destroys mBuffers[]: each non-empty Vbo lets go.          *)
destroyMeshObj(m, buffers) ==
    [b \in Buffers |-> IF m.hasBuffer[b] THEN release(buffers[b]) ELSE buffers[b]]

----------------------------------------------------------------------------
(* VboMesh::VertexIter.  The constructors are defined in Vbo.cpp; Obj maps *)
(* the dynamic buffer and keeps a Vbo handle to it (mVbo), VertexIter      *)
(* caches the bounds, the offsets and the stride.  mStride is a uint8_t.   *)

NoIterObj == [useCount |-> 0]

MapAddresses == {4096}

(* What a uint8_t mStride holds once `stride' is assigned to it.           *)
storeStride(stride) == stride % 256

newIterObj(m, addr) ==
    [useCount |-> 1,
     mData |-> addr,
     mDataEnd |-> addr + m.mNumVertices * m.mDynamicStride,
     mCustomOffsets |-> [i \in 1 .. Len(m.mLayout.mCustomDynamic) |->
                            m.mLayout.mCustomDynamic[i][2]]]

newVertexIter(m, obj) ==
    [mPtr |-> obj.mData,
     mData |-> obj.mData,
     mDataEnd |-> obj.mDataEnd,
     mPositionOffset |-> m.mPositionOffset,
     mNormalOffset |-> m.mNormalOffset,
     mColorRGBOffset |-> m.mColorRGBOffset,
     mColorRGBAOffset |-> m.mColorRGBAOffset,
     mTexCoordOffset |-> m.mTexCoordOffset,
     mStride |-> storeStride(m.mDynamicStride),
     advances |-> 0]

(* Faulty variant: isDone() answering whether the end has been reached.    *)
isDone_atEnd(c) == c.mPtr >= c.mDataEnd
(* bool isDone() const { return mPtr < mDataEnd; }                         *)
isDone(c) == c.mPtr < c.mDataEnd

(* void operator++() { mPtr += mStride; }                                  *)
advance(c) == [c EXCEPT !.mPtr = @ + c.mStride, !.advances = @ + 1]

(* size_t getStride() const { return mStride; }                            *)
getStride(c) == c.mStride

(* size_t getIndex() const { return ( mPtr - mData ) / mStride; }: the     *)
(* outcomes of one call.  An integer division by zero is undefined: the    *)
(* call traps, or returns whatever the build leaves in the result.         *)
GarbageIndices == {0, 255}
getIndex(c) ==
    IF c.mStride = 0
        THEN {[trap |-> TRUE, value |-> 0]}
             \cup {[trap |-> FALSE, value |-> g] : g \in GarbageIndices}
        ELSE {[trap |-> FALSE, value |-> (c.mPtr - c.mData) \div c.mStride]}

(* The bytes of the value written: byte i of value v.                      *)
Values == {1, 2}
valueByte(v, i) == 100 * v + i

(* *(reinterpret_cast<T*>( &mPtr[offset] )) = v: sizeof(T) bytes at addr.  *)
store(m, addr, size, v) ==
    [a \in DOMAIN m \cup (addr .. (addr + size - 1)) |->
        IF a >= addr /\ a < addr + size THEN valueByte(v, a - addr) ELSE m[a]]

NoMem == [a \in {} |-> 0]

----------------------------------------------------------------------------
(* The caller building a Layout: one action per mutator.                   *)

Mutate(op, arg, newLayout) ==
    /\ mesh = NoMesh
    /\ nOps < MaxLayoutOps
    /\ UNCHANGED <<mesh, ownerVars, cursorVars, device, shareVars>>
    /\ layout' = newLayout
    /\ nOps' = nOps + 1
    /\ last' = [op |-> op, arg |-> arg, before |-> layout]

SetStaticNormals == Mutate("setStaticNormals", 0, setStaticNormals(layout))
SetDynamicNormals == Mutate("setDynamicNormals", 0, setDynamicNormals(layout))
SetStaticColorsRGB == Mutate("setStaticColorsRGB", 0, setStaticColorsRGB(layout))
SetDynamicColorsRGB == Mutate("setDynamicColorsRGB", 0, setDynamicColorsRGB(layout))
SetStaticColorsRGBA == Mutate("setStaticColorsRGBA", 0, setStaticColorsRGBA(layout))
SetDynamicColorsRGBA == Mutate("setDynamicColorsRGBA", 0, setDynamicColorsRGBA(layout))
SetStaticTexCoords2d ==
    \E u \in Units : Mutate("setStaticTexCoords2d", u, setStaticTexCoords2d(layout, u))
SetDynamicTexCoords2d ==
    \E u \in Units : Mutate("setDynamicTexCoords2d", u, setDynamicTexCoords2d(layout, u))
SetStaticTexCoords3d ==
    \E u \in Units : Mutate("setStaticTexCoords3d", u, setStaticTexCoords3d(layout, u))
SetDynamicTexCoords3d ==
    \E u \in Units : Mutate("setDynamicTexCoords3d", u, setDynamicTexCoords3d(layout, u))
SetStaticIndices == Mutate("setStaticIndices", 0, setStaticIndices(layout))
SetDynamicIndices == Mutate("setDynamicIndices", 0, setDynamicIndices(layout))
SetStaticPositions == Mutate("setStaticPositions", 0, setStaticPositions(layout))
SetDynamicPositions == Mutate("setDynamicPositions", 0, setDynamicPositions(layout))
AddDynamicCustomFloat == Mutate("addDynamicCustomFloat", 0, addDynamicCustomFloat(layout))
AddDynamicCustomVec2f == Mutate("addDynamicCustomVec2f", 0, addDynamicCustomVec2f(layout))
AddDynamicCustomVec3f == Mutate("addDynamicCustomVec3f", 0, addDynamicCustomVec3f(layout))
AddDynamicCustomVec4f == Mutate("addDynamicCustomVec4f", 0, addDynamicCustomVec4f(layout))

LayoutNext ==
    \/ SetStaticNormals \/ SetDynamicNormals
    \/ SetStaticColorsRGB \/ SetDynamicColorsRGB
    \/ SetStaticColorsRGBA \/ SetDynamicColorsRGBA
    \/ SetStaticTexCoords2d \/ SetDynamicTexCoords2d
    \/ SetStaticTexCoords3d \/ SetDynamicTexCoords3d
    \/ SetStaticIndices \/ SetDynamicIndices
    \/ SetStaticPositions \/ SetDynamicPositions
    \/ AddDynamicCustomFloat \/ AddDynamicCustomVec2f
    \/ AddDynamicCustomVec3f \/ AddDynamicCustomVec4f

(* VboMesh( numVertices, numIndices, layout, primitiveType ): the Obj is   *)
(* created with one handle and the buffers the Layout needs.               *)
ConstructMeshWith(NV, NI) ==
    \E nv \in NV, ni \in NI :
        /\ mesh = NoMesh
        /\ mesh' = initializeBuffers(nv, ni, layout)
        /\ meshHandles' = 1
        /\ vbo' = [b \in Buffers |-> IF mesh'.hasBuffer[b] THEN newVbo ELSE NoVbo]
        /\ last' = [op |-> "VboMesh", arg |-> 0, before |-> layout]
        /\ UNCHANGED <<layoutVars, device, shareVars, vboHandles, cursorVars>>

ConstructMesh == ConstructMeshWith(VertexCounts, IndexCounts)

NoOp == [op |-> "none", arg |-> 0, before |-> DefaultLayout]
OwnerOp(name) == [op |-> name, arg |-> 0, before |-> 0]

----------------------------------------------------------------------------
(* Handles: VboMesh and Vbo are copied and reset by the caller.            *)

(* A VboMesh handle is copied: mObj gets one more owner.                   *)
CopyMesh ==
    /\ meshHandles >= 1
    /\ meshHandles < MaxHandles
    /\ meshHandles' = meshHandles + 1
    /\ last' = OwnerOp("VboMesh copy")
    /\ UNCHANGED <<layoutVars, device, shareVars, mesh, vbo, vboHandles, cursorVars>>

(* VboMesh::reset() { mObj.reset(); } on a handle that holds the Obj, or   *)
(* the destruction of such a handle.  The last one destroys the Obj.       *)
ResetMesh ==
    /\ meshHandles >= 1
    /\ meshHandles' = meshHandles - 1
    /\ vbo' = IF meshHandles = 1 THEN destroyMeshObj(mesh, vbo) ELSE vbo
    /\ last' = OwnerOp("VboMesh::reset")
    /\ UNCHANGED <<layoutVars, device, shareVars, mesh, vboHandles, cursorVars>>

(* The caller copies a Vbo handle: the one returned by getIndexVbo(),      *)
(* getStaticVbo(), getDynamicVbo(), or a copy it already holds.            *)
CopyVbo ==
    \E b \in Buffers :
        /\ meshHandles >= 1 \/ vboHandles[b] >= 1
        /\ mesh.hasBuffer[b]
        /\ vboHandles[b] < MaxHandles
        /\ vboHandles' = [vboHandles EXCEPT ![b] = @ + 1]
        /\ vbo' = [vbo EXCEPT ![b] = acquire(@)]
        /\ last' = OwnerOp("Vbo copy")
        /\ UNCHANGED <<layoutVars, device, shareVars, mesh, meshHandles, cursorVars>>

(* Vbo::reset() { mObj.reset(); } on a handle the caller holds.            *)
ResetVbo ==
    \E b \in Buffers :
        /\ vboHandles[b] >= 1
        /\ vboHandles' = [vboHandles EXCEPT ![b] = @ - 1]
        /\ vbo' = [vbo EXCEPT ![b] = release(@)]
        /\ last' = OwnerOp("Vbo::reset")
        /\ UNCHANGED <<layoutVars, device, shareVars, mesh, meshHandles, cursorVars>>

----------------------------------------------------------------------------
(* VboMesh( numVertices, numIndices, layout, primitiveType, Vbo            *)
(* *indexBuffer, Vbo *staticBuffer, Vbo *dynamicBuffer ).  A Vbo::Obj is   *)
(* named by its place in `pool'; a handle is that place, or Null.          *)

(* Vbo( GLenum aTarget ): the caller creates a buffer to supply.           *)
CallerNewVbo ==
    \E b \in Buffers :
        /\ callerVbo[b] = Null
        /\ pool' = Append(pool, newVbo)
        /\ callerVbo' = [callerVbo EXCEPT ![b] = Len(pool) + 1]
        /\ last' = OwnerOp("Vbo")
        /\ UNCHANGED <<layoutVars, mesh, ownerVars, cursorVars, device, built>>

(* Faulty variant: a buffer is allocated whether one was supplied or not.  *)
adoptOne_allocates(supplied, needed, p) ==
    IF needed THEN [handle |-> Len(p) + 1, pool |-> Append(p, newVbo)]
    ELSE [handle |-> Null, pool |-> p]
(* One buffer of the mesh: the supplied Vbo is copied into mBuffers[] when *)
(* the pointer is not NULL, a new Vbo is created when it is NULL and the   *)
(* Layout needs the buffer, mBuffers[] is left empty otherwise.            *)
adoptOne(supplied, needed, p) ==
    IF supplied # Null
        THEN [handle |-> supplied, pool |-> [p EXCEPT ![supplied] = acquire(@)]]
    ELSE IF needed THEN [handle |-> Len(p) + 1, pool |-> Append(p, newVbo)]
    ELSE [handle |-> Null, pool |-> p]

(* The three buffers in turn.  Returns <<mBuffers, pool>>.                 *)
adoptBuffers(supplied, needed, p) ==
    LET index == adoptOne(supplied[INDEX_BUFFER], needed[INDEX_BUFFER], p)
        static == adoptOne(supplied[STATIC_BUFFER], needed[STATIC_BUFFER], index.pool)
        dynamic == adoptOne(supplied[DYNAMIC_BUFFER], needed[DYNAMIC_BUFFER], static.pool)
    IN  << [b \in Buffers |->
               IF b = INDEX_BUFFER THEN index.handle
               ELSE IF b = STATIC_BUFFER THEN static.handle
               ELSE dynamic.handle],
           dynamic.pool >>

(* Vbo& getIndexVbo() / getStaticVbo() / getDynamicVbo() of a built mesh.  *)
getIndexVbo(m) == m.mBuffers[INDEX_BUFFER]
getStaticVbo(m) == m.mBuffers[STATIC_BUFFER]
getDynamicVbo(m) == m.mBuffers[DYNAMIC_BUFFER]

ShareLayouts ==
    { setDynamicPositions(setStaticNormals(setStaticIndices(DefaultLayout))),
      setStaticPositions(DefaultLayout) }

(* The arguments a caller may pass: NULL, or a pointer to the Vbo it holds *)
(* for that buffer.                                                        *)
SuppliedBuffers == {s \in [Buffers -> {Null} \cup (1 .. Len(pool))] :
                       \A b \in Buffers : s[b] \in {Null, callerVbo[b]}}

ConstructMeshFromBuffers ==
    \E L \in ShareLayouts, supplied \in SuppliedBuffers :
        LET obj == initializeBuffers(1, 6, L)
            adopted == adoptBuffers(supplied, obj.hasBuffer, pool)
        IN  /\ Len(built) < MaxMeshes
            /\ built' = Append(built, [obj |-> obj, mBuffers |-> adopted[1],
                                        supplied |-> supplied])
            /\ pool' = adopted[2]
            /\ last' = [op |-> "VboMesh from buffers", arg |-> supplied,
                        before |-> [pool |-> pool]]
            /\ UNCHANGED <<layoutVars, mesh, ownerVars, cursorVars, device, callerVbo>>

----------------------------------------------------------------------------
(* The public operations of a constructed VboMesh.                         *)

getNumIndices(m) == m.mNumIndices
getNumVertices(m) == m.mNumVertices
getLayout(m) == m.mLayout
getTexCoordOffset(m, unit) == m.mTexCoordOffset[unit]

(* void setTexCoordOffset( size_t unit, size_t aTexCoordOffset )           *)
(*     { mObj->mTexCoordOffset[unit] = aTexCoordOffset; }                  *)
setTexCoordOffset(m, unit, aTexCoordOffset) ==
    [m EXCEPT !.mTexCoordOffset[unit] = aTexCoordOffset]

(* void setCustomDynamicLocation( size_t internalIndex, GLuint location )  *)
(*     { mObj->mCustomDynamicLocations[internalIndex] = location; }        *)
setCustomDynamicLocation(m, internalIndex, location) ==
    [m EXCEPT !.mCustomDynamicLocations[internalIndex + 1] = location]

(* A bulk upload of `count' elements of `size' bytes for slot `attr',      *)
(* whose offset the mesh keeps as `offset'.  The call raises before any    *)
(* device call when the slot is NONE or the count is not that of the mesh; *)
(* otherwise it issues bufferSubData on the byte ranges [lo, hi): the      *)
(* whole index buffer, the planar sub-array of a static attribute, or the  *)
(* attribute's bytes in each interleaved record of the dynamic buffer.     *)
upload(m, attr, offset, size, count) ==
    LET presence == m.mLayout.mAttributes[attr]
        expected == IF attr = ATTR_INDICES THEN m.mNumIndices ELSE m.mNumVertices
    IN  IF presence = NONE \/ count # expected
            THEN [raised |-> TRUE, writes |-> {}]
        ELSE IF attr = ATTR_INDICES
            THEN [raised |-> FALSE,
                  writes |-> {[buffer |-> INDEX_BUFFER, lo |-> 0, hi |-> count * size]}]
        ELSE IF presence = STATIC
            THEN [raised |-> FALSE,
                  writes |-> {[buffer |-> STATIC_BUFFER, lo |-> offset,
                               hi |-> offset + count * size]}]
        ELSE [raised |-> FALSE,
              writes |-> {[buffer |-> DYNAMIC_BUFFER,
                           lo |-> k * m.mDynamicStride + offset,
                           hi |-> k * m.mDynamicStride + offset + size] :
                          k \in 0 .. (count - 1)}]

bufferIndices(m, count) == upload(m, ATTR_INDICES, 0, SizeofIndex, count)
bufferPositions(m, count) ==
    upload(m, ATTR_POSITIONS, m.mPositionOffset, SizeofVec3f, count)
bufferNormals(m, count) == upload(m, ATTR_NORMALS, m.mNormalOffset, SizeofVec3f, count)
bufferColorsRGB(m, count) ==
    upload(m, ATTR_COLORS_RGB, m.mColorRGBOffset, SizeofVec3f, count)
bufferColorsRGBA(m, count) ==
    upload(m, ATTR_COLORS_RGBA, m.mColorRGBAOffset, SizeofVec4f, count)
bufferTexCoords2d(m, unit, count) ==
    upload(m, ATTR_TEXCOORDS2D_0 + unit, m.mTexCoordOffset[unit], SizeofVec2f, count)
bufferTexCoords3d(m, unit, count) ==
    upload(m, ATTR_TEXCOORDS3D_0 + unit, m.mTexCoordOffset[unit], SizeofVec3f, count)

OffsetArgs == {0, 4096}  \* aTexCoordOffset arguments
Locations == {7}         \* shader locations
UploadCounts == {2, 3}   \* lengths of the source arrays

(* A call on a VboMesh handle that holds the Obj.                          *)
MeshOp(op, unit, count, raised, newMesh, newDevice) ==
    /\ meshHandles >= 1
    /\ mesh' = newMesh
    /\ device' = newDevice
    /\ last' = [op |-> op,
                arg |-> [unit |-> unit, count |-> count, raised |-> raised],
                before |-> [mesh |-> mesh, device |-> device]]
    /\ UNCHANGED <<layoutVars, shareVars, ownerVars, cursorVars>>

SetTexCoordOffset ==
    \E unit \in Units, offset \in OffsetArgs :
        MeshOp("setTexCoordOffset", unit, 0, FALSE,
               setTexCoordOffset(mesh, unit, offset), device)

SetCustomDynamicLocation ==
    /\ meshHandles >= 1
    /\ \E location \in Locations, index \in 0 .. (Len(mesh.mCustomDynamicLocations) - 1) :
            MeshOp("setCustomDynamicLocation", index, 0, FALSE,
                   setCustomDynamicLocation(mesh, index, location), device)

(* One bulk upload call: the mesh is left as it is, the device calls of a  *)
(* call that did not raise are appended to the log.                        *)
Upload(op, unit, count, result) ==
    /\ Len(device) < MaxUploads
    /\ MeshOp(op, unit, count, result.raised, mesh,
              IF result.raised THEN device ELSE Append(device, result.writes))

BufferIndices ==
    \E count \in UploadCounts :
        Upload("bufferIndices", 0, count, bufferIndices(mesh, count))
BufferPositions ==
    \E count \in UploadCounts :
        Upload("bufferPositions", 0, count, bufferPositions(mesh, count))
BufferNormals ==
    \E count \in UploadCounts :
        Upload("bufferNormals", 0, count, bufferNormals(mesh, count))
BufferColorsRGB ==
    \E count \in UploadCounts :
        Upload("bufferColorsRGB", 0, count, bufferColorsRGB(mesh, count))
BufferColorsRGBA ==
    \E count \in UploadCounts :
        Upload("bufferColorsRGBA", 0, count, bufferColorsRGBA(mesh, count))
BufferTexCoords2d ==
    \E unit \in Units, count \in UploadCounts :
        Upload("bufferTexCoords2d", unit, count, bufferTexCoords2d(mesh, unit, count))
BufferTexCoords3d ==
    \E unit \in Units, count \in UploadCounts :
        Upload("bufferTexCoords3d", unit, count, bufferTexCoords3d(mesh, unit, count))

UploadNext ==
    \/ BufferIndices \/ BufferPositions \/ BufferNormals
    \/ BufferColorsRGB \/ BufferColorsRGBA
    \/ BufferTexCoords2d \/ BufferTexCoords3d

----------------------------------------------------------------------------
(* The vertex cursor.                                                      *)

(* Faulty variant: the map is attempted whatever the mesh holds.            *)
mapFails_never(m) == FALSE
(* Whether VertexIter::Obj::Obj fails: the mesh has no dynamic buffer to   *)
(* map.                                                                    *)
mapFails(m) == ~ m.hasBuffer[DYNAMIC_BUFFER]

(* VboMesh::mapVertexBuffer(): a new mapping session on the dynamic        *)
(* buffer, or VboFailedMapExc when there is no dynamic buffer.  Mapping a  *)
(* buffer that is already mapped is left undefined and is not a call the   *)
(* caller makes.                                                           *)
MapVertexBuffer ==
    \E addr \in MapAddresses :
        /\ meshHandles >= 1
        /\ iterObj = NoIterObj
        /\ ~ vbo[DYNAMIC_BUFFER].mapped
        /\ vbo[DYNAMIC_BUFFER].nMap < MaxSessions
        /\ IF mapFails(mesh)
               THEN /\ last' = OwnerOp("mapVertexBuffer: VboFailedMapExc")
                    /\ UNCHANGED <<iterObj, iters, vbo, mem, nWrites>>
               ELSE /\ iterObj' = newIterObj(mesh, addr)
                    /\ iters' = << newVertexIter(mesh, iterObj') >>
                    /\ vbo' = [vbo EXCEPT ![DYNAMIC_BUFFER] =
                                   [acquire(@) EXCEPT !.mapped = TRUE, !.nMap = @ + 1]]
                    /\ mem' = NoMem
                    /\ nWrites' = 0
                    /\ last' = OwnerOp("mapVertexBuffer")
        /\ UNCHANGED <<layoutVars, device, shareVars, mesh, meshHandles, vboHandles>>

(* A VertexIter is copied (the implicit copy constructor): the copy shares *)
(* mObj and starts where the original stands.                              *)
CopyIter ==
    \E i \in 1 .. Len(iters) :
        /\ Len(iters) < MaxHandles
        /\ iters' = Append(iters, iters[i])
        /\ iterObj' = [iterObj EXCEPT !.useCount = @ + 1]
        /\ last' = OwnerOp("VertexIter copy")
        /\ UNCHANGED <<layoutVars, device, shareVars, mesh, ownerVars, mem, nWrites>>

(* Faulty variant: every VertexIter copy that goes away unmaps.            *)
iterObjDestroyed_always(obj) == TRUE
(* Whether the VertexIter going away is the last owner of obj, so that     *)
(* ~Obj runs.                                                              *)
iterObjDestroyed(obj) == obj.useCount = 1

(* ~VertexIter::Obj: unmaps the buffer, then mVbo lets go of it.           *)
destroyIterObj(v) == release([v EXCEPT !.mapped = FALSE, !.nUnmap = @ + 1])

(* A VertexIter copy is destroyed.                                         *)
DestroyIter ==
    \E i \in 1 .. Len(iters) :
        /\ iters' = [j \in 1 .. (Len(iters) - 1) |-> IF j < i THEN iters[j] ELSE iters[j + 1]]
        /\ iterObj' = IF iterObj.useCount = 1 THEN NoIterObj
                      ELSE [iterObj EXCEPT !.useCount = @ - 1]
        /\ vbo' = IF iterObjDestroyed(iterObj)
                      THEN [vbo EXCEPT ![DYNAMIC_BUFFER] = destroyIterObj(@)]
                      ELSE vbo
        /\ last' = OwnerOp("~VertexIter")
        /\ UNCHANGED <<layoutVars, device, shareVars, mesh, meshHandles, vboHandles, mem, nWrites>>

(* ++iter                                                                  *)
Advance ==
    \E i \in 1 .. Len(iters) :
        /\ iters[i].advances < MaxAdvances
        /\ iters' = [iters EXCEPT ![i] = advance(@)]
        /\ last' = [op |-> "operator++", arg |-> i, before |-> iters[i]]
        /\ UNCHANGED <<layoutVars, device, shareVars, mesh, ownerVars, iterObj, mem, nWrites>>

(* iter.getIndex()                                                         *)
GetIndex ==
    \E i \in 1 .. Len(iters) :
        \E r \in getIndex(iters[i]) :
            /\ last' = [op |-> "getIndex",
                        arg |-> [iter |-> i, result |-> r],
                        before |-> [mem |-> mem, iter |-> iters[i]]]
            /\ UNCHANGED <<layoutVars, device, shareVars, mesh, ownerVars, cursorVars>>

SizeofFloat == 4
SetterUnits == 0 .. 2    \* setTexCoord2d0 .. setTexCoord2d2, setTexCoord3d0 .. 3d2

(* A setter call on VertexIter i: sizeof(T) bytes are stored at            *)
(* &mPtr[offset].  The caller writes where the cursor stands before the    *)
(* end bound, and only attributes the Layout declares dynamic.             *)
Write(i, op, index, offset, size, v) ==
    /\ nWrites < MaxWrites
    /\ iters[i].mPtr < iters[i].mDataEnd
    /\ mem' = store(mem, iters[i].mPtr + offset, size, v)
    /\ nWrites' = nWrites + 1
    /\ last' = [op |-> op,
                arg |-> [iter |-> i, index |-> index, value |-> v],
                before |-> [mem |-> mem, iter |-> iters[i]]]
    /\ UNCHANGED <<layoutVars, device, shareVars, mesh, ownerVars, iterObj, iters>>

SetPosition ==
    \E i \in 1 .. Len(iters), v \in Values :
        /\ hasDynamicPositions(mesh.mLayout)
        /\ Write(i, "setPosition", 0, iters[i].mPositionOffset, SizeofVec3f, v)

SetNormal ==
    \E i \in 1 .. Len(iters), v \in Values :
        /\ hasDynamicNormals(mesh.mLayout)
        /\ Write(i, "setNormal", 0, iters[i].mNormalOffset, SizeofVec3f, v)

SetColorRGB ==
    \E i \in 1 .. Len(iters), v \in Values :
        /\ hasDynamicColorsRGB(mesh.mLayout)
        /\ Write(i, "setColorRGB", 0, iters[i].mColorRGBOffset, SizeofVec3f, v)

SetColorRGBA ==
    \E i \in 1 .. Len(iters), v \in Values :
        /\ hasDynamicColorsRGBA(mesh.mLayout)
        /\ Write(i, "setColorRGBA", 0, iters[i].mColorRGBAOffset, SizeofVec4f, v)

SetTexCoord2d ==
    \E i \in 1 .. Len(iters), v \in Values, u \in SetterUnits :
        /\ hasDynamicTexCoords2d(mesh.mLayout, u)
        /\ Write(i, "setTexCoord2d", u, iters[i].mTexCoordOffset[u], SizeofVec2f, v)

SetTexCoord3d ==
    \E i \in 1 .. Len(iters), v \in Values, u \in SetterUnits :
        /\ hasDynamicTexCoords3d(mesh.mLayout, u)
        /\ Write(i, "setTexCoord3d", u, iters[i].mTexCoordOffset[u], SizeofVec3f, v)

(* setCustomFloat / Vec2f / Vec3f / Vec4f( index, v ), called for a custom *)
(* attribute declared with that type.                                      *)
SetCustom(op, type, size) ==
    \E i \in 1 .. Len(iters) :
        \E v \in Values, index \in 0 .. (Len(iterObj.mCustomOffsets) - 1) :
            /\ mesh.mLayout.mCustomDynamic[index + 1][1] = type
            /\ Write(i, op, index, iterObj.mCustomOffsets[index + 1], size, v)

SetCustomFloat == SetCustom("setCustomFloat", CUSTOM_ATTR_FLOAT, SizeofFloat)
SetCustomVec2f == SetCustom("setCustomVec2f", CUSTOM_ATTR_FLOAT2, SizeofVec2f)
SetCustomVec3f == SetCustom("setCustomVec3f", CUSTOM_ATTR_FLOAT3, SizeofVec3f)
SetCustomVec4f == SetCustom("setCustomVec4f", CUSTOM_ATTR_FLOAT4, SizeofVec4f)

SetterNext ==
    \/ SetPosition \/ SetNormal \/ SetColorRGB \/ SetColorRGBA
    \/ SetTexCoord2d \/ SetTexCoord3d
    \/ SetCustomFloat \/ SetCustomVec2f \/ SetCustomVec3f \/ SetCustomVec4f

----------------------------------------------------------------------------
(* Specifications.                                                         *)

InitWith(layouts) ==
    /\ layout \in layouts
    /\ nOps = 0
    /\ last = NoOp
    /\ mesh = NoMesh
    /\ meshHandles = 0
    /\ vbo = [b \in Buffers |-> NoVbo]
    /\ vboHandles = [b \in Buffers |-> 0]
    /\ iterObj = NoIterObj
    /\ iters = <<>>
    /\ mem = NoMem
    /\ nWrites = 0
    /\ device = <<>>
    /\ pool = <<>>
    /\ callerVbo = [b \in Buffers |-> Null]
    /\ built = <<>>

(* Spec: a caller builds a Layout from the default one, then constructs a  *)
(* mesh from it.                                                           *)
Init == InitWith({DefaultLayout})

Next == LayoutNext \/ ConstructMesh

Spec == Init /\ [][Next]_vars

RECURSIVE addCustomVec4fs(_, _)
addCustomVec4fs(L, n) ==
    IF n = 0 THEN L ELSE addCustomVec4fs(addDynamicCustomVec4f(L), n - 1)

(* SpecCursor: a mesh is constructed from one of a family of Layouts, its  *)
(* dynamic buffer is mapped and a cursor walks and writes it.              *)
CursorBaseLayouts ==
    { DefaultLayout,
      setDynamicPositions(DefaultLayout),
      setDynamicTexCoords2d(setDynamicColorsRGBA(setDynamicNormals(
          setStaticIndices(setDynamicPositions(DefaultLayout)))), 0),
      setDynamicTexCoords3d(setDynamicColorsRGB(setStaticNormals(DefaultLayout)), 1) }

CursorLayouts ==
    { addCustomVec4fs(L, n) : L \in CursorBaseLayouts, n \in {0, 2, MaxCustomVec4} }
    \cup { addDynamicCustomVec3f(addDynamicCustomVec2f(addDynamicCustomFloat(
               setDynamicPositions(DefaultLayout)))),
           setStaticNormals(setStaticPositions(DefaultLayout)) }

CursorVertexCounts == {0, 1, 2}

InitCursor == InitWith(CursorLayouts)

ConstructMeshForCursor == ConstructMeshWith(CursorVertexCounts, {0})

NextCursor ==
    \/ ConstructMeshForCursor
    \/ MapVertexBuffer
    \/ Advance
    \/ GetIndex
    \/ SetterNext
    \/ DestroyIter

SpecCursor == InitCursor /\ [][NextCursor]_vars

(* SpecOwn: the handles of one mesh, of its buffers and of its cursor are  *)
(* copied, reset and destroyed in any order.                               *)
OwnLayouts ==
    { setStaticIndices(setStaticNormals(setDynamicPositions(DefaultLayout))),
      addDynamicCustomFloat(DefaultLayout) }

InitOwn == InitWith(OwnLayouts)

ConstructMeshForOwn == ConstructMeshWith({1}, {6})

NextOwn ==
    \/ ConstructMeshForOwn
    \/ CopyMesh \/ ResetMesh
    \/ CopyVbo \/ ResetVbo
    \/ MapVertexBuffer
    \/ CopyIter \/ DestroyIter
    \/ Advance

SpecOwn == InitOwn /\ [][NextOwn]_vars

(* SpecMesh: a mesh is constructed from one of a family of Layouts and its *)
(* public operations are called in any order.                              *)
MeshLayouts ==
    { setDynamicColorsRGBA(setStaticTexCoords2d(setStaticNormals(setStaticPositions(
          setStaticIndices(DefaultLayout))), 0)),
      addDynamicCustomFloat(setStaticTexCoords3d(setDynamicNormals(setDynamicPositions(
          DefaultLayout)), 1)),
      setDynamicTexCoords2d(setStaticColorsRGB(setStaticPositions(DefaultLayout)), 2) }

InitMesh == InitWith(MeshLayouts)

ConstructMeshForMesh == ConstructMeshWith({2, 3}, {3})

NextMesh ==
    \/ ConstructMeshForMesh
    \/ SetTexCoordOffset
    \/ SetCustomDynamicLocation
    \/ UploadNext

SpecMesh == InitMesh /\ [][NextMesh]_vars

(* SpecShare: a caller creates buffers and builds meshes from them.        *)
InitShare == InitWith({DefaultLayout})

NextShare == CallerNewVbo \/ ConstructMeshFromBuffers

SpecShare == InitShare /\ [][NextShare]_vars

----------------------------------------------------------------------------
(* Properties of the Layout mutators.                                      *)

ColorRGBAMutators == {"setStaticColorsRGBA", "setDynamicColorsRGBA"}
ColorRGBMutators == {"setStaticColorsRGB", "setDynamicColorsRGB"}

(* C1: after setStaticColorsRGBA / setDynamicColorsRGBA the color-RGB slot *)
(* is NONE, after setStaticColorsRGB / setDynamicColorsRGB the color-RGBA  *)
(* slot is NONE, and in every Layout reachable from the default one at     *)
(* most one of the two color slots is not NONE.                            *)
C1_ColorsExclusive ==
    /\ last.op \in ColorRGBAMutators =>
          /\ layout.mAttributes[ATTR_COLORS_RGB] = NONE
          /\ layout.mAttributes[ATTR_COLORS_RGBA] # NONE
    /\ last.op \in ColorRGBMutators =>
          /\ layout.mAttributes[ATTR_COLORS_RGBA] = NONE
          /\ layout.mAttributes[ATTR_COLORS_RGB] # NONE
    /\ ~ ( /\ layout.mAttributes[ATTR_COLORS_RGB] # NONE
           /\ layout.mAttributes[ATTR_COLORS_RGBA] # NONE )

(* An RGBA setter has just been called on a Layout whose RGB slot was set. *)
C1_Witness ==
    /\ last.op = "setDynamicColorsRGBA"
    /\ last.before.mAttributes[ATTR_COLORS_RGB] = STATIC
    /\ layout.mAttributes[ATTR_COLORS_RGBA] = DYNAMIC

TexCoord2dMutators == {"setStaticTexCoords2d", "setDynamicTexCoords2d"}
TexCoord3dMutators == {"setStaticTexCoords3d", "setDynamicTexCoords3d"}
PresenceSetBy(op) ==
    IF op \in {"setStaticTexCoords2d", "setStaticTexCoords3d"} THEN STATIC ELSE DYNAMIC

C14_DefaultsIffAllAbsent ==
    /\ DOMAIN DefaultLayout.mAttributes = 0 .. 12
    /\ \A a \in 0 .. 12 : DefaultLayout.mAttributes[a] = NONE
    /\ DefaultLayout.mCustomDynamic = <<>>
    /\ DefaultLayout.mCustomStatic = <<>>
    /\ isDefaults(DefaultLayout)
    /\ isDefaults(layout) <=> (\A a \in 0 .. 12 : layout.mAttributes[a] = NONE)

(* A Layout with two custom attributes and every slot NONE.                *)
C14_Witness ==
    /\ nOps = 2
    /\ Len(layout.mCustomDynamic) = 2
    /\ \A a \in Slots : layout.mAttributes[a] = NONE
    /\ isDefaults(layout)

CustomAppenders ==
    { "addDynamicCustomFloat", "addDynamicCustomVec2f", "addDynamicCustomVec3f",
      "addDynamicCustomVec4f" }

AppendedType(op) ==
    IF op = "addDynamicCustomFloat" THEN CUSTOM_ATTR_FLOAT
    ELSE IF op = "addDynamicCustomVec2f" THEN CUSTOM_ATTR_FLOAT2
    ELSE IF op = "addDynamicCustomVec3f" THEN CUSTOM_ATTR_FLOAT3
    ELSE CUSTOM_ATTR_FLOAT4

IsPrefix(s, t) ==
    /\ Len(s) <= Len(t)
    /\ \A i \in 1 .. Len(s) : s[i] = t[i]

(* C15: an appender adds one declaration of its type at the end of the     *)
(* dynamic custom list and changes neither a slot nor the static custom    *)
(* list; no Layout operation removes or reorders an entry: the list before *)
(* the operation is a prefix of the list after it.                         *)
C15_AppendersGrowInOrder ==
    /\ last.op \in CustomAppenders =>
          /\ Len(layout.mCustomDynamic) = Len(last.before.mCustomDynamic) + 1
          /\ layout.mCustomDynamic[Len(layout.mCustomDynamic)][1] = AppendedType(last.op)
          /\ layout.mAttributes = last.before.mAttributes
          /\ layout.mCustomStatic = last.before.mCustomStatic
    /\ last.op # "none" => IsPrefix(last.before.mCustomDynamic, layout.mCustomDynamic)

(* A vec2 has just been appended to a Layout that declared a vec3 custom   *)
(* attribute and dynamic positions.                                        *)
C15_Witness ==
    /\ last.op = "addDynamicCustomVec2f"
    /\ Len(last.before.mCustomDynamic) = 1
    /\ last.before.mCustomDynamic[1][1] = CUSTOM_ATTR_FLOAT3
    /\ last.before.mAttributes[ATTR_POSITIONS] = DYNAMIC
    /\ Len(layout.mCustomDynamic) = 2
    /\ layout.mCustomDynamic[2][1] = CUSTOM_ATTR_FLOAT2

----------------------------------------------------------------------------
(* Properties of the resolved layout.  The sizes and the order are written *)
(* here as the design document states them, slot by slot.                  *)

RECURSIVE SumTo(_, _)
SumTo(seq, n) == IF n = 0 THEN 0 ELSE seq[n] + SumTo(seq, n - 1)

(* The vertex slots in placement order; the 2D and the 3D slot of a unit   *)
(* share a place.                                                          *)
PlacementOrder ==
    << ATTR_POSITIONS, ATTR_NORMALS, ATTR_COLORS_RGB, ATTR_COLORS_RGBA,
       ATTR_TEXCOORDS2D_0, ATTR_TEXCOORDS3D_0,
       ATTR_TEXCOORDS2D_0 + 1, ATTR_TEXCOORDS3D_0 + 1,
       ATTR_TEXCOORDS2D_0 + 2, ATTR_TEXCOORDS3D_0 + 2,
       ATTR_TEXCOORDS2D_0 + 3, ATTR_TEXCOORDS3D_0 + 3 >>

StatedSize(a) ==
    IF a = ATTR_COLORS_RGBA THEN 16
    ELSE IF a >= ATTR_TEXCOORDS2D_0 /\ a < ATTR_TEXCOORDS3D_0 THEN 8
    ELSE 12

StatedCustomSize(type) == 4 * (type + 1)

(* Sizes of the slots of L that are in `region', in placement order.       *)
RegionSizes(L, region) ==
    [i \in 1 .. Len(PlacementOrder) |->
        IF L.mAttributes[PlacementOrder[i]] = region
            THEN StatedSize(PlacementOrder[i]) ELSE 0]

CustomSizes(L) ==
    [i \in 1 .. Len(L.mCustomDynamic) |-> StatedCustomSize(L.mCustomDynamic[i][1])]

(* The resolved offset of slot PlacementOrder[i].                          *)
ResolvedOffset(m, i) ==
    LET a == PlacementOrder[i]
    IN  IF a = ATTR_POSITIONS THEN m.mPositionOffset
        ELSE IF a = ATTR_NORMALS THEN m.mNormalOffset
        ELSE IF a = ATTR_COLORS_RGB THEN m.mColorRGBOffset
        ELSE IF a = ATTR_COLORS_RGBA THEN m.mColorRGBAOffset
        ELSE IF a < ATTR_TEXCOORDS3D_0 THEN m.mTexCoordOffset[a - ATTR_TEXCOORDS2D_0]
        ELSE m.mTexCoordOffset[a - ATTR_TEXCOORDS3D_0]

PositionsNormalsVec2f ==
    addDynamicCustomVec2f(setDynamicNormals(setDynamicPositions(DefaultLayout)))

(* C3: the dynamic stride is the exact sum of the sizes of the attributes  *)
(* marked DYNAMIC; the dynamic offsets are the cumulative sums of those    *)
(* sizes in slot order, the dynamic customs following in declaration       *)
(* order; positions + normals + one custom vec2 give stride 32 and         *)
(* offsets 0, 12, 24.                                                      *)
C3_DynamicInterleaved ==
    mesh # NoMesh =>
        LET L == mesh.mLayout
            sizes == RegionSizes(L, DYNAMIC)
            fixed == SumTo(sizes, Len(sizes))
            csizes == CustomSizes(L)
        IN  /\ mesh.mDynamicStride = fixed + SumTo(csizes, Len(csizes))
            /\ \A i \in 1 .. Len(PlacementOrder) :
                   L.mAttributes[PlacementOrder[i]] = DYNAMIC =>
                       ResolvedOffset(mesh, i) = SumTo(sizes, i - 1)
            /\ \A i \in 1 .. Len(L.mCustomDynamic) :
                   L.mCustomDynamic[i][2] = fixed + SumTo(csizes, i - 1)
            /\ Len(L.mCustomDynamic) = Len(layout.mCustomDynamic)
            /\ \A i \in 1 .. Len(L.mCustomDynamic) :
                   L.mCustomDynamic[i][1] = layout.mCustomDynamic[i][1]
            /\ layout = PositionsNormalsVec2f =>
                   /\ mesh.mDynamicStride = 32
                   /\ mesh.mPositionOffset = 0
                   /\ mesh.mNormalOffset = 12
                   /\ L.mCustomDynamic[1][2] = 24

(* A mesh resolved from a Layout with a dynamic fixed slot after another   *)
(* one and with a dynamic custom attribute.                                *)
C3_Witness ==
    /\ mesh # NoMesh
    /\ layout = PositionsNormalsVec2f
    /\ mesh.mDynamicStride = 32

OnlyStatic(L) ==
    /\ \A a \in Slots : L.mAttributes[a] # DYNAMIC
    /\ Len(L.mCustomDynamic) = 0

StaticPlanarOffsets(m) ==
    LET L == m.mLayout
        sizes == RegionSizes(L, STATIC)
    IN  /\ \A i \in 1 .. Len(PlacementOrder) :
               L.mAttributes[PlacementOrder[i]] = STATIC =>
                   ResolvedOffset(m, i) = m.mNumVertices * SumTo(sizes, i - 1)
        /\ m.bufferSize[STATIC_BUFFER] = m.mNumVertices * SumTo(sizes, Len(sizes))

StaticTexCoordExample ==
    /\ layout = setStaticTexCoords2d(DefaultLayout, 0) /\ mesh.mNumVertices = 4
           => mesh.bufferSize[STATIC_BUFFER] = 32
    /\ ( /\ layout = setStaticTexCoords2d(setDynamicPositions(setStaticIndices(DefaultLayout)), 0)
         /\ mesh.mNumVertices = 4 /\ mesh.mNumIndices = 6 )
           => /\ mesh.bufferSize[INDEX_BUFFER] = 24
              /\ mesh.bufferSize[STATIC_BUFFER] = 32
              /\ mesh.bufferSize[DYNAMIC_BUFFER] = 48
              /\ mesh.mDynamicStride = 12
              /\ mesh.mPositionOffset = 0

(* Two static slots of m, i before j: the sub-array of i ends where or     *)
(* before that of j starts.                                                *)
StaticDisjoint(m) ==
    \A i, j \in 1 .. Len(PlacementOrder) :
        ( /\ i < j
          /\ m.mLayout.mAttributes[PlacementOrder[i]] = STATIC
          /\ m.mLayout.mAttributes[PlacementOrder[j]] = STATIC )
        => ResolvedOffset(m, i) + m.mNumVertices * StatedSize(PlacementOrder[i])
               <= ResolvedOffset(m, j)

StaticStrictlyIncreasing(m) ==
    \A i, j \in 1 .. Len(PlacementOrder) :
        ( /\ i < j
          /\ m.mLayout.mAttributes[PlacementOrder[i]] = STATIC
          /\ m.mLayout.mAttributes[PlacementOrder[j]] = STATIC )
        => ResolvedOffset(m, i) < ResolvedOffset(m, j)

(* C4 as stated: for a Layout with only static attributes and any vertex   *)
(* count, the static offsets are the cumulative sums of vertexCount x      *)
(* size in slot order, strictly increasing, the sub-arrays disjoint, and   *)
(* the static buffer holds the sum of vertexCount x size.                  *)
C4_AsStated ==
    (mesh # NoMesh /\ OnlyStatic(mesh.mLayout)) =>
        /\ StaticPlanarOffsets(mesh)
        /\ StaticDisjoint(mesh)
        /\ StaticStrictlyIncreasing(mesh)
        /\ StaticTexCoordExample

(* C4 amended: the same, the offsets being strictly increasing when the    *)
(* vertex count is at least 1; with vertexCount = 0 every static offset    *)
(* is 0.                                                                   *)
C4_StaticPlanar ==
    (mesh # NoMesh /\ OnlyStatic(mesh.mLayout)) =>
        /\ StaticPlanarOffsets(mesh)
        /\ StaticDisjoint(mesh)
        /\ mesh.mNumVertices >= 1 => StaticStrictlyIncreasing(mesh)
        /\ mesh.mNumVertices = 0 =>
               \A i \in 1 .. Len(PlacementOrder) :
                   mesh.mLayout.mAttributes[PlacementOrder[i]] = STATIC =>
                       ResolvedOffset(mesh, i) = 0
        /\ StaticTexCoordExample

(* A mesh of 4 vertices resolved from static positions, static RGBA colors *)
(* and static 2D texcoords on unit 0.                                      *)
C4_Witness ==
    /\ mesh # NoMesh
    /\ OnlyStatic(mesh.mLayout)
    /\ mesh.mNumVertices = 4
    /\ mesh.mLayout.mAttributes[ATTR_POSITIONS] = STATIC
    /\ mesh.mLayout.mAttributes[ATTR_COLORS_RGBA] = STATIC
    /\ mesh.mLayout.mAttributes[ATTR_TEXCOORDS2D_0] = STATIC
    /\ mesh.mTexCoordOffset[0] = 112
    /\ mesh.bufferSize[STATIC_BUFFER] = 144

----------------------------------------------------------------------------
(* Properties of the shared ownership.                                     *)

(* The owners of buffer b, counted from the handles that exist: the Vbo    *)
(* copies the caller holds, the VboMesh::Obj while a VboMesh handle keeps  *)
(* it alive, and the VertexIter::Obj (mVbo) of an open session.            *)
Owners(b) ==
    vboHandles[b]
    + (IF meshHandles >= 1 /\ mesh.hasBuffer[b] THEN 1 ELSE 0)
    + (IF b = DYNAMIC_BUFFER /\ Len(iters) >= 1 THEN 1 ELSE 0)

(* C5: whatever the order of the copies, resets and destructions of the    *)
(* Vbo, VboMesh and VertexIter handles, a device buffer has been released  *)
(* exactly once when no owner is left and not at all while one is; with    *)
(* every VboMesh handle reset and a cursor alive, the dynamic buffer has   *)
(* not been released.                                                      *)
C5_ReleasedOnceByLastOwner ==
    mesh # NoMesh =>
        /\ \A b \in Buffers :
               mesh.hasBuffer[b] =>
                   /\ vbo[b].nDeleted = (IF Owners(b) = 0 THEN 1 ELSE 0)
                   /\ vbo[b].useCount = Owners(b)
        /\ (meshHandles = 0 /\ Len(iters) >= 1) => vbo[DYNAMIC_BUFFER].nDeleted = 0

(* Every VboMesh handle has been reset while a cursor is alive: the static *)
(* buffer is gone, the dynamic one is not.                                 *)
C5_Witness ==
    /\ mesh # NoMesh
    /\ meshHandles = 0
    /\ Len(iters) >= 1
    /\ vboHandles[DYNAMIC_BUFFER] = 0
    /\ mesh.hasBuffer[STATIC_BUFFER]
    /\ vbo[STATIC_BUFFER].nDeleted = 1
    /\ vbo[DYNAMIC_BUFFER].nDeleted = 0

(* C6: in a mapping session the dynamic buffer stays mapped while a copy   *)
(* of the VertexIter is alive and is unmapped, once, when the last copy is *)
(* destroyed: the unmaps are the maps, less the open session.              *)
C6_UnmappedOnce ==
    mesh # NoMesh =>
        /\ vbo[DYNAMIC_BUFFER].mapped <=> Len(iters) >= 1
        /\ vbo[DYNAMIC_BUFFER].nUnmap
               = vbo[DYNAMIC_BUFFER].nMap - (IF Len(iters) >= 1 THEN 1 ELSE 0)

(* One copy of the cursor has been destroyed and another one is alive.     *)
C6_Witness ==
    /\ last.op = "~VertexIter"
    /\ Len(iters) = 1
    /\ vbo[DYNAMIC_BUFFER].mapped
    /\ vbo[DYNAMIC_BUFFER].nMap = 1
    /\ vbo[DYNAMIC_BUFFER].nUnmap = 0

----------------------------------------------------------------------------
(* Properties of the cursor.                                               *)

MapAttempts == {"mapVertexBuffer", "mapVertexBuffer: VboFailedMapExc"}

(* C13: mapVertexBuffer() on a mesh without a dynamic buffer fails with    *)
(* VboFailedMapExc: no VertexIter exists for such a mesh and none of its   *)
(* buffers is mapped.                                                      *)
C13_MapWithoutDynamicFails ==
    (mesh # NoMesh /\ ~ mesh.hasBuffer[DYNAMIC_BUFFER]) =>
        /\ last.op \in MapAttempts => last.op = "mapVertexBuffer: VboFailedMapExc"
        /\ iterObj = NoIterObj
        /\ iters = <<>>
        /\ \A b \in Buffers : ~ vbo[b].mapped /\ vbo[b].nMap = 0

(* mapVertexBuffer() has just been called on a mesh that has a static      *)
(* buffer and no dynamic one.                                              *)
C13_Witness ==
    /\ last.op = "mapVertexBuffer: VboFailedMapExc"
    /\ mesh.hasBuffer[STATIC_BUFFER]
    /\ ~ mesh.hasBuffer[DYNAMIC_BUFFER]
    /\ iters = <<>>

(* C7 as stated: after k advances the pointer of a cursor is               *)
(* mData + k x the resolved dynamic stride of the mesh, for every stride.  *)
C7_AsStated ==
    \A i \in 1 .. Len(iters) :
        iters[i].mPtr = iters[i].mData + iters[i].advances * mesh.mDynamicStride

(* The same for the strides a uint8_t holds.                               *)
C7_StridesBelow256 ==
    \A i \in 1 .. Len(iters) :
        mesh.mDynamicStride < 256 =>
            iters[i].mPtr = iters[i].mData + iters[i].advances * mesh.mDynamicStride

(* C8 as stated: a cursor opened on a mesh of 0 vertices has isDone() true *)
(* before any advance.                                                     *)
C8_AsStated ==
    \A i \in 1 .. Len(iters) :
        (mesh.mNumVertices = 0 /\ iters[i].advances = 0) =>
            /\ iters[i].mPtr = iters[i].mDataEnd
            /\ isDone(iters[i])

(* C9: isDone() is true exactly when the pointer is strictly before        *)
(* mDataEnd, that is when the cursor may be advanced.                      *)
C9_IsDoneMeansBeforeEnd ==
    \A i \in 1 .. Len(iters) :
        isDone(iters[i]) <=> iters[i].mPtr < iters[i].mDataEnd

(* A cursor that stands on the end bound after one advance over a mesh of  *)
(* one vertex: isDone() is false there.                                    *)
C9_Witness ==
    /\ Len(iters) = 1
    /\ mesh.mNumVertices = 1
    /\ mesh.mDynamicStride = 12
    /\ iters[1].advances = 1
    /\ iters[1].mPtr = iters[1].mDataEnd
    /\ ~ isDone(iters[1])

SetterOps ==
    { "setPosition", "setNormal", "setColorRGB", "setColorRGBA", "setTexCoord2d",
      "setTexCoord3d", "setCustomFloat", "setCustomVec2f", "setCustomVec3f",
      "setCustomVec4f" }

(* offset(A) and size(A) of the attribute a setter writes, from the        *)
(* resolved layout of the mesh.                                            *)
AttributeOffset(op, index) ==
    IF op = "setPosition" THEN mesh.mPositionOffset
    ELSE IF op = "setNormal" THEN mesh.mNormalOffset
    ELSE IF op = "setColorRGB" THEN mesh.mColorRGBOffset
    ELSE IF op = "setColorRGBA" THEN mesh.mColorRGBAOffset
    ELSE IF op \in {"setTexCoord2d", "setTexCoord3d"} THEN mesh.mTexCoordOffset[index]
    ELSE mesh.mLayout.mCustomDynamic[index + 1][2]

AttributeSize(op) ==
    IF op \in {"setPosition", "setNormal", "setColorRGB", "setTexCoord3d", "setCustomVec3f"}
        THEN 12
    ELSE IF op \in {"setColorRGBA", "setCustomVec4f"} THEN 16
    ELSE IF op \in {"setTexCoord2d", "setCustomVec2f"} THEN 8
    ELSE 4

(* The last step was a setter call at vertex k < vertexCount; the written  *)
(* bytes are at mData + k x stride + offset(A), every other byte is as     *)
(* before.                                                                 *)
WrittenWhereStated ==
    LET k == last.before.iter.advances
        start == last.before.iter.mData + k * mesh.mDynamicStride
                     + AttributeOffset(last.op, last.arg.index)
        range == start .. (start + AttributeSize(last.op) - 1)
    IN  /\ range \subseteq DOMAIN mem
        /\ \A a \in range : mem[a] = valueByte(last.arg.value, a - start)
        /\ DOMAIN mem \ range = DOMAIN last.before.mem \ range
        /\ \A a \in DOMAIN mem \ range : mem[a] = last.before.mem[a]

(* C10 as stated: the round trip, for every vertex index below the vertex  *)
(* count and every dynamic attribute of the layout.                        *)
C10_AsStated ==
    (last.op \in SetterOps /\ last.before.iter.advances < mesh.mNumVertices)
        => WrittenWhereStated

(* The same for the strides a uint8_t holds.                               *)
C10_StridesBelow256 ==
    ( /\ last.op \in SetterOps
      /\ last.before.iter.advances < mesh.mNumVertices
      /\ mesh.mDynamicStride < 256 )
        => WrittenWhereStated

(* C17 as stated: a setter called where the cursor stands before mDataEnd, *)
(* for a dynamic attribute the Layout declares, writes inside the mapped   *)
(* region [mData, mDataEnd), after any number of advances, for every       *)
(* Layout and vertex count.                                                *)
C17_AsStated ==
    last.op \in SetterOps =>
        \A a \in DOMAIN mem :
            a >= last.before.iter.mData /\ a < last.before.iter.mDataEnd

(* The same for the strides a uint8_t holds.                               *)
C17_StridesBelow256 ==
    (last.op \in SetterOps /\ mesh.mDynamicStride < 256) =>
        \A a \in DOMAIN mem :
            a >= last.before.iter.mData /\ a < last.before.iter.mDataEnd

(* C18 as stated: a cursor advanced from vertex 0 stands on mDataEnd after *)
(* vertexCount advances and before mDataEnd after fewer, for every mesh    *)
(* with a dynamic buffer.                                                  *)
C18_AsStated ==
    \A i \in 1 .. Len(iters) :
        /\ iters[i].advances = mesh.mNumVertices =>
               iters[i].mPtr = iters[i].mDataEnd
        /\ iters[i].advances < mesh.mNumVertices =>
               iters[i].mPtr < iters[i].mDataEnd

(* The same for the strides a uint8_t holds.                               *)
C18_StridesBelow256 ==
    \A i \in 1 .. Len(iters) :
        mesh.mDynamicStride < 256 =>
            /\ iters[i].advances = mesh.mNumVertices =>
                   iters[i].mPtr = iters[i].mDataEnd
            /\ iters[i].advances < mesh.mNumVertices =>
                   iters[i].mPtr < iters[i].mDataEnd

(* C19 as stated: getIndex() returns the number of advances made since the *)
(* cursor was created, for every dynamic stride.                           *)
C19_AsStated ==
    last.op = "getIndex" =>
        /\ ~ last.arg.result.trap
        /\ last.arg.result.value = last.before.iter.advances

(* The same for the strides that are not stored as 0 in a uint8_t.         *)
C19_StrideNotMultipleOf256 ==
    (last.op = "getIndex" /\ mesh.mDynamicStride % 256 # 0) =>
        /\ ~ last.arg.result.trap
        /\ last.arg.result.value = last.before.iter.advances

----------------------------------------------------------------------------
(* Properties of the public operations of a mesh.                          *)

UploadOps ==
    { "bufferIndices", "bufferPositions", "bufferNormals", "bufferColorsRGB",
      "bufferColorsRGBA", "bufferTexCoords2d", "bufferTexCoords3d" }

MeshOps == UploadOps \cup {"setTexCoordOffset", "setCustomDynamicLocation"}

(* What the getters and the resolved fields of two mesh states agree on.   *)
SameCountsAndLayout(m, n) ==
    /\ getNumVertices(m) = getNumVertices(n)
    /\ getNumIndices(m) = getNumIndices(n)
    /\ getLayout(m) = getLayout(n)

SameFixedOffsetsAndStrides(m, n) ==
    /\ m.mPositionOffset = n.mPositionOffset
    /\ m.mNormalOffset = n.mNormalOffset
    /\ m.mColorRGBOffset = n.mColorRGBOffset
    /\ m.mColorRGBAOffset = n.mColorRGBAOffset
    /\ m.mStaticStride = n.mStaticStride
    /\ m.mDynamicStride = n.mDynamicStride

SameTexCoordOffsets(m, n) ==
    \A u \in Units : getTexCoordOffset(m, u) = getTexCoordOffset(n, u)

(* C11 as stated: no public operation of a constructed mesh changes its    *)
(* vertex count, index count, layout, or resolved layout, the per-unit     *)
(* texcoord offsets included.                                              *)
C11_AsStated ==
    last.op \in MeshOps =>
        /\ SameCountsAndLayout(mesh, last.before.mesh)
        /\ SameFixedOffsetsAndStrides(mesh, last.before.mesh)
        /\ SameTexCoordOffsets(mesh, last.before.mesh)

(* The same without the per-unit texcoord offsets.                         *)
C11_ExceptTexCoordOffsets ==
    last.op \in MeshOps =>
        /\ SameCountsAndLayout(mesh, last.before.mesh)
        /\ SameFixedOffsetsAndStrides(mesh, last.before.mesh)

UploadSlot(op, unit) ==
    IF op = "bufferIndices" THEN ATTR_INDICES
    ELSE IF op = "bufferPositions" THEN ATTR_POSITIONS
    ELSE IF op = "bufferNormals" THEN ATTR_NORMALS
    ELSE IF op = "bufferColorsRGB" THEN ATTR_COLORS_RGB
    ELSE IF op = "bufferColorsRGBA" THEN ATTR_COLORS_RGBA
    ELSE IF op = "bufferTexCoords2d" THEN ATTR_TEXCOORDS2D_0 + unit
    ELSE ATTR_TEXCOORDS3D_0 + unit

PlaceOf(slot) == CHOOSE i \in 1 .. Len(PlacementOrder) : PlacementOrder[i] = slot

(* The byte range w lies in the region the resolution rules give slot      *)
(* `slot' of mesh m: the index buffer, the planar sub-array of a static    *)
(* slot, or the bytes of a dynamic slot in one interleaved record.         *)
InResolvedRegion(m, slot, w) ==
    LET L == m.mLayout
        nv == m.mNumVertices
    IN  /\ w.lo < w.hi
        /\ IF slot = ATTR_INDICES
               THEN /\ w.buffer = INDEX_BUFFER
                    /\ w.lo >= 0
                    /\ w.hi <= m.mNumIndices * 4
           ELSE IF L.mAttributes[slot] = STATIC
               THEN LET base == nv * SumTo(RegionSizes(L, STATIC), PlaceOf(slot) - 1)
                    IN  /\ w.buffer = STATIC_BUFFER
                        /\ w.lo >= base
                        /\ w.hi <= base + nv * StatedSize(slot)
           ELSE LET sizes == RegionSizes(L, DYNAMIC)
                    csizes == CustomSizes(L)
                    stride == SumTo(sizes, Len(sizes)) + SumTo(csizes, Len(csizes))
                    off == SumTo(sizes, PlaceOf(slot) - 1)
                IN  /\ w.buffer = DYNAMIC_BUFFER
                    /\ \E k \in 0 .. (nv - 1) :
                           /\ w.lo >= k * stride + off
                           /\ w.hi <= k * stride + off + StatedSize(slot)

UploadChecked ==
    LET m == last.before.mesh
        slot == UploadSlot(last.op, last.arg.unit)
        expected == IF slot = ATTR_INDICES THEN m.mNumIndices ELSE m.mNumVertices
    IN  /\ (m.mLayout.mAttributes[slot] = NONE \/ last.arg.count # expected) =>
               /\ last.arg.raised
               /\ device = last.before.device
        /\ ~ last.arg.raised =>
               /\ Len(device) = Len(last.before.device) + 1
               /\ \A w \in device[Len(device)] : InResolvedRegion(m, slot, w)

C12_ResolvedOffsetsKept ==
    ( /\ last.op \in UploadOps
      /\ SameTexCoordOffsets(last.before.mesh,
                             initializeBuffers(mesh.mNumVertices, mesh.mNumIndices, layout)) )
        => UploadChecked

(* The number of buffers the construction had to allocate.                 *)
Allocated(m) ==
    Cardinality({b \in Buffers : m.supplied[b] = Null /\ m.obj.hasBuffer[b]})

(* C16: a mesh built from caller-supplied buffers holds each supplied      *)
(* buffer itself, as one more owner of it and without a new allocation,    *)
(* and for a NULL argument a fresh buffer exactly when its Layout needs    *)
(* one; two meshes supplied the same static buffer report that buffer,     *)
(* and the dynamic buffers allocated for them are distinct.                *)
C16_SuppliedBuffersAdopted ==
    /\ last.op = "VboMesh from buffers" =>
          LET m == built[Len(built)]
              before == last.before.pool
          IN  /\ m.supplied = last.arg
              /\ Len(pool) = Len(before) + Allocated(m)
              /\ \A b \in Buffers :
                     IF last.arg[b] # Null
                         THEN /\ m.mBuffers[b] = last.arg[b]
                              /\ pool[m.mBuffers[b]].useCount
                                     = before[m.mBuffers[b]].useCount + 1
                     ELSE IF m.obj.hasBuffer[b]
                         THEN /\ m.mBuffers[b] \in (Len(before) + 1) .. Len(pool)
                              /\ pool[m.mBuffers[b]].useCount = 1
                     ELSE m.mBuffers[b] = Null
    /\ \A i, j \in 1 .. Len(built) :
           i # j =>
               /\ ( /\ built[i].supplied[STATIC_BUFFER] # Null
                    /\ built[i].supplied[STATIC_BUFFER] = built[j].supplied[STATIC_BUFFER] )
                  => getStaticVbo(built[i]) = getStaticVbo(built[j])
               /\ ( /\ built[i].supplied[DYNAMIC_BUFFER] = Null
                    /\ built[i].obj.hasBuffer[DYNAMIC_BUFFER] )
                  => /\ getDynamicVbo(built[i]) # Null
                     /\ getDynamicVbo(built[i]) # getDynamicVbo(built[j])

(* Two meshes with dynamic positions built from the same static buffer and *)
(* a NULL dynamic buffer.                                                  *)
C16_Witness ==
    /\ Len(built) = 2
    /\ built[1].supplied[STATIC_BUFFER] # Null
    /\ built[2].supplied[STATIC_BUFFER] = built[1].supplied[STATIC_BUFFER]
    /\ built[1].supplied[DYNAMIC_BUFFER] = Null
    /\ built[2].supplied[DYNAMIC_BUFFER] = Null
    /\ built[1].obj.hasBuffer[DYNAMIC_BUFFER]
    /\ built[2].obj.hasBuffer[DYNAMIC_BUFFER]
    /\ getStaticVbo(built[1]) = getStaticVbo(built[2])
    /\ getDynamicVbo(built[1]) # getDynamicVbo(built[2])
    /\ pool[getStaticVbo(built[1])].useCount = 3

====
